---- MODULE Spec2Model ----
(***************************************************************************)
(* A model of base/_interface.py: the priority dispatch queue (class        *)
(* prioritybase and the host connection of its subclasses), the type codec *)
(* (class typemap) and the register topology (register_t, architecture_t). *)
(*                                                                         *)
(* A callable is modelled by a number: two callables are the same object   *)
(* when the numbers are equal, and the number is also the position of the  *)
(* object in Python 2's default ordering of function objects (by address),  *)
(* which is what the comparison of two (priority, callable) tuples falls   *)
(* back to when the priorities are equal.                                  *)
(***************************************************************************)
EXTENDS Integers, Sequences, FiniteSets, TLC

\* Bounds of the model: the targets, callables and priorities of Spec, and
\* the callables of the one target of SpecQueue, whose priorities are -1, 3
\* and 5 and one more for every callable beyond the third.
NumTargets == 2
NumCallables == 2
NumPriorities == 2
QueueLen == 3

Targets == 1..NumTargets
Callables == 1..NumCallables
Priorities == 1..NumPriorities
QueueTargets == {1}
QueueCallables == 1..QueueLen
QueuePriorities == {-1, 3, 5} \cup 6..(QueueLen + 2)

\* prioritybase.result and its two sentinels; UNKNOWN is an instance of
\* prioritybase.result (or of a subclass) that is neither sentinel.
CONTINUE == "CONTINUE"
STOP == "STOP"
UNKNOWN == "result()"
result == {CONTINUE, STOP, UNKNOWN}

\* What a callable hands back: a result instance or any other python value.
ReturnValues == result \cup {"None", "True", "1"}
\* What happens when a callable is called: it returns a value or it raises.
Outcomes == ReturnValues \cup {"raise"}
\* The outcomes that Spec draws from: the two sentinels and an exception.
Signals == {CONTINUE, STOP, "raise"}

VARIABLES
    cache,      \* self.__cache__ : target -> list of <<priority, callable>>
    disabled,   \* self.__disabled : set of targets
    traceback,  \* keys of self.__traceback : set of <<target, callable>>
    connected,  \* host side: the targets the host holds a closure for
    added,      \* target -> its callables in the order of their registration
    call,       \* the call in progress or the latest finished call
    frames,     \* the dispatches that wait for a call their callable made
    inverted,   \* typemap.inverted : masked flag -> <<type, size>>
    defaults,   \* the None keys of integermap, decimalmap, ptrmap, stringmap
    prc,        \* the word sizes the processor notifications have reported
    tcall,      \* the latest call of typemap.resolve or typemap.dissolve
    regs,       \* the register_t objects, in the order of their creation
    rstate,     \* architecture.__register__.__state__ : name -> register
    rcache,     \* architecture.__cache__ : <<idaname, dtype>> -> name
    rcall       \* the latest call of an architecture_t method

\* The variables of the dispatch queue, of the type codec and of the
\* register topology.
qvars == <<cache, disabled, traceback, connected, added, call, frames>>
tvars == <<inverted, defaults, prc, tcall>>
rvars == <<regs, rstate, rcache, rcall>>
vars == <<qvars, tvars, rvars>>

----
\* Python's comparison of two (priority, callable) tuples.
Lt(a, b) == a[1] < b[1] \/ (a[1] = b[1] /\ a[2] < b[2])

\* heapq._siftdown(heap, 0, pos) with newitem the item to place (1-based pos).
RECURSIVE siftdown(_, _, _)
siftdown(heap, pos, newitem) ==
    IF pos > 1 /\ Lt(newitem, heap[pos \div 2])
    THEN siftdown([heap EXCEPT ![pos] = heap[pos \div 2]], pos \div 2, newitem)
    ELSE [heap EXCEPT ![pos] = newitem]

\* heapq.heappush(heap, item)
heappush(heap, item) == siftdown(Append(heap, item), Len(heap) + 1, item)

\* sorted(): a stable insertion of x behind everything that is not greater.
RECURSIVE insort(_, _)
insort(s, x) ==
    IF s = <<>> THEN <<x>>
    ELSE IF Lt(x, s[Len(s)]) THEN Append(insort(SubSeq(s, 1, Len(s) - 1), x), s[Len(s)])
         ELSE Append(s, x)

RECURSIVE sorted(_)
sorted(s) == IF s = <<>> THEN <<>> ELSE insort(sorted(SubSeq(s, 1, Len(s) - 1)), s[Len(s)])

\* The list as it lies in memory, without the sort.
nsmallest_unsorted(n, hookq) == SubSeq(hookq, 1, n)

\* heapq.nsmallest(n, iterable): with n >= len(iterable) it is sorted(iterable)[:n],
\* and with n = 1 it is [min(iterable)].
nsmallest(n, hookq) == SubSeq(sorted(hookq), 1, n)

\* self.__cache__[target] on a collections.defaultdict(list): a missing key
\* is created with an empty list.
getitem(c, target) ==
    IF target \in DOMAIN c THEN c
    ELSE [x \in DOMAIN c \cup {target} |-> IF x = target THEN <<>> ELSE c[x]]

\* self.__cache__.pop(target, [])
pop(c, target) == [x \in DOMAIN c \ {target} |-> c[x]]

\* A loop that keeps every entry.
state_keepsAll(list, callable) == list

\* The loop of discard: the entries that are kept, and the number dropped.
state(list, callable) == SelectSeq(list, LAMBDA e : e[2] # callable)
found(list, callable) == Len(SelectSeq(list, LAMBDA e : e[2] = callable))

\* A discard that leaves the empty list of a target in the cache.
discardCache_keepsEmpty(c, target, callable) ==
    IF target \notin DOMAIN c THEN c
    ELSE [c EXCEPT ![target] = state(c[target], callable)]

\* prioritybase.discard: the cache it leaves and the value it returns.
discardCache(c, target, callable) ==
    IF target \notin DOMAIN c THEN c
    ELSE IF state(c[target], callable) # <<>>
         THEN [c EXCEPT ![target] = state(c[target], callable)]
         ELSE pop(c, target)

discardResult(c, target, callable) ==
    target \in DOMAIN c /\ found(c[target], callable) > 0

\* The callables of a list, as a set, and the entries of a list, as a set.
callables(list) == {list[i][2] : i \in DOMAIN list}
entries(list) == {list[i] : i \in DOMAIN list}
entriesOf(c, target) == IF target \in DOMAIN c THEN entries(c[target]) ELSE {}

----
Init ==
    /\ cache = <<>>
    /\ disabled = {}
    /\ traceback = {}
    /\ connected = {}
    /\ added = <<>>
    /\ call = [op |-> "init"]
    /\ frames = <<>>
    /\ inverted = <<>>
    /\ defaults = <<>>
    /\ prc = [bits |-> 0, wide |-> 0]
    /\ tcall = [op |-> "init"]
    /\ regs = <<>>
    /\ rstate = <<>>
    /\ rcache = <<>>
    /\ rcall = [op |-> "init"]

\* No dispatch is running: the host is single threaded, and a call that does
\* not come from a callable comes between two dispatches.
Idle == call.op = "dispatch" => call.status # "running"

\* The order of registration after callable is registered for target (last
\* = TRUE) or removed from it (last = FALSE); a target without callables
\* has no order.
register(a, target, callable, last) ==
    LET old == IF target \in DOMAIN a THEN a[target] ELSE <<>>
        rest == SelectSeq(old, LAMBDA c : c # callable)
        new == IF last THEN Append(rest, callable) ELSE rest
    IN IF new = <<>> THEN [x \in DOMAIN a \ {target} |-> a[x]]
       ELSE [x \in DOMAIN a \cup {target} |-> IF x = target THEN new ELSE a[x]]

\* prioritybase.add; ok is what connect(target, closure) reports. The record
\* of the call keeps the exception that ends it (raises; ret is FALSE then,
\* for no value is returned), whether connect was called (connect) and what
\* the discard inside add returned (replaced).
add(target, callable, priority, ok) ==
    IF target \notin DOMAIN cache /\ ~ok
    THEN /\ call' = [op |-> "add", target |-> target, callable |-> callable,
                     priority |-> priority, raises |-> "NameError",
                     ret |-> FALSE, connect |-> TRUE, replaced |-> FALSE]
         /\ UNCHANGED <<cache, disabled, traceback, connected, added>>
    ELSE /\ cache' = LET c == getitem(discardCache(cache, target, callable), target)
                     IN [c EXCEPT ![target] = heappush(c[target], <<priority, callable>>)]
         /\ traceback' = traceback \cup {<<target, callable>>}
         /\ connected' = IF target \notin DOMAIN cache
                         THEN connected \cup {target} ELSE connected
         /\ added' = register(added, target, callable, TRUE)
         /\ call' = [op |-> "add", target |-> target, callable |-> callable,
                     priority |-> priority, raises |-> "none",
                     ret |-> TRUE, connect |-> target \notin DOMAIN cache,
                     replaced |-> discardResult(cache, target, callable)]
         /\ UNCHANGED disabled

\* prioritybase.discard
discard(target, callable) ==
    /\ cache' = discardCache(cache, target, callable)
    /\ added' = register(added, target, callable, FALSE)
    /\ call' = [op |-> "discard", target |-> target, callable |-> callable,
                ret |-> discardResult(cache, target, callable)]
    /\ UNCHANGED <<disabled, traceback, connected>>

\* prioritybase.enable
enable(target) ==
    /\ IF target \notin disabled
       THEN /\ call' = [op |-> "enable", target |-> target, ret |-> FALSE]
            /\ UNCHANGED disabled
       ELSE /\ disabled' = disabled \ {target}
            /\ call' = [op |-> "enable", target |-> target, ret |-> TRUE]
    /\ UNCHANGED <<cache, traceback, connected, added>>

\* prioritybase.disable
disable(target) ==
    /\ IF target \notin DOMAIN cache
       THEN /\ call' = [op |-> "disable", target |-> target, ret |-> FALSE]
            /\ UNCHANGED disabled
       ELSE IF target \in disabled
       THEN /\ call' = [op |-> "disable", target |-> target, ret |-> FALSE]
            /\ UNCHANGED disabled
       ELSE /\ disabled' = disabled \cup {target}
            /\ call' = [op |-> "disable", target |-> target, ret |-> TRUE]
    /\ UNCHANGED <<cache, traceback, connected, added>>

\* prioritybase.get
get(target) ==
    /\ cache' = getitem(cache, target)
    /\ call' = [op |-> "get", target |-> target,
                ret |-> [i \in DOMAIN getitem(cache, target)[target]
                            |-> getitem(cache, target)[target][i][2]]]
    /\ UNCHANGED <<disabled, traceback, connected, added>>

\* A guard that does not look at the disabled targets.
skipped_ignoresDisabled(target) == target \notin DOMAIN cache

\* The guard of the closure: nothing is called for a target that is not in
\* the cache or that is disabled.
skipped(target) == target \notin DOMAIN cache \/ target \in disabled

\* What the call before a dispatch of target was: a dispatch of the same
\* target that caught an exception, an enable of it that returned True, or
\* any other call.
before(target) ==
    IF call.op = "dispatch" /\ call.target = target /\ call.last = "raise"
    THEN "raise"
    ELSE IF call.op = "enable" /\ call.target = target /\ call.ret
    THEN "enable"
    ELSE "other"

\* The closure of prioritybase.apply, up to its first callable: the guard,
\* the copy of the list and heapq.nsmallest. The record of the dispatch keeps
\* the callables in the order of the loop (order), the ones called so far
\* (fired), what the latest one did (last), and the call before it (after).
closure(target) ==
    /\ call' = LET order == IF skipped(target) THEN <<>>
                            ELSE LET hookq == cache[target]
                                 IN nsmallest(Len(hookq), hookq)
               IN [op |-> "dispatch", target |-> target, order |-> order,
                   fired |-> <<>>, last |-> "none", after |-> before(target),
                   status |-> IF order = <<>> THEN "returned" ELSE "running"]
    /\ UNCHANGED <<cache, disabled, traceback, connected, added>>

\* A loop without the except clause: the exception leaves the closure.
verdict_noexcept(target, callable, outcome) ==
    IF outcome = "raise" THEN "Exception"
    ELSE IF outcome \notin result \/ outcome = CONTINUE THEN "continue"
    ELSE IF outcome = STOP THEN "break"
    ELSE "TypeError"

\* A loop that goes on for CONTINUE alone.
verdict_strict(target, callable, outcome) ==
    IF outcome = "raise" /\ <<target, callable>> \notin traceback THEN "KeyError"
    ELSE LET res == IF outcome = "raise" THEN STOP ELSE outcome
         IN IF res = CONTINUE THEN "continue"
            ELSE IF res = STOP THEN "break"
            ELSE "TypeError"

\* How one turn of the loop of the closure ends, given what the callable did.
verdict(target, callable, outcome) ==
    IF outcome = "raise" /\ <<target, callable>> \notin traceback THEN "KeyError"
    ELSE LET res == IF outcome = "raise" THEN STOP ELSE outcome
         IN IF res \notin result \/ res = CONTINUE THEN "continue"
            ELSE IF res = STOP THEN "break"
            ELSE "TypeError"

\* A loop that drops the callable that raised from the list of its target.
invoke_evicts(outcome) ==
    /\ call.op = "dispatch" /\ call.status = "running"
    /\ LET item == call.order[Len(call.fired) + 1]
           v == verdict(call.target, item[2], outcome)
           fired == Append(call.fired, item)
           status == IF v = "continue"
                     THEN IF Len(fired) < Len(call.order) THEN "running" ELSE "returned"
                     ELSE IF v = "break" THEN "returned" ELSE v
       IN /\ call' = [call EXCEPT !.fired = fired, !.status = status, !.last = outcome]
          /\ cache' = IF outcome = "raise"
                      THEN discardCache(cache, call.target, item[2]) ELSE cache
    /\ UNCHANGED <<disabled, traceback, connected, added>>

\* One turn of the loop of the closure: the next callable is called.
invoke(outcome) ==
    /\ call.op = "dispatch" /\ call.status = "running"
    /\ LET item == call.order[Len(call.fired) + 1]
           v == verdict(call.target, item[2], outcome)
           fired == Append(call.fired, item)
           status == IF v = "continue"
                     THEN IF Len(fired) < Len(call.order) THEN "running" ELSE "returned"
                     ELSE IF v = "break" THEN "returned" ELSE v
       IN call' = [call EXCEPT !.fired = fired, !.status = status, !.last = outcome]
    /\ UNCHANGED <<cache, disabled, traceback, connected, added>>

\* The calls the host and the scripts make, with their inputs drawn from T
\* (targets), C (callables) and P (priorities), and what the callables do
\* drawn from O.
Step(T, C, P, O) ==
    \/ \E t \in T, c \in C, p \in P, ok \in BOOLEAN :
          Idle /\ add(t, c, p, ok) /\ UNCHANGED <<frames, tvars, rvars>>
    \/ \E t \in T, c \in C : Idle /\ discard(t, c) /\ UNCHANGED <<frames, tvars, rvars>>
    \/ \E t \in T : Idle /\ enable(t) /\ UNCHANGED <<frames, tvars, rvars>>
    \/ \E t \in T : Idle /\ disable(t) /\ UNCHANGED <<frames, tvars, rvars>>
    \/ \E t \in T : Idle /\ get(t) /\ UNCHANGED <<frames, tvars, rvars>>
    \/ \E t \in T : Idle /\ closure(t) /\ UNCHANGED <<frames, tvars, rvars>>
    \/ \E o \in O : invoke(o) /\ UNCHANGED <<frames, tvars, rvars>>

Next == Step(Targets, Callables, Priorities, Signals)

Spec == Init /\ [][Next]_vars

\* One target with a longer queue.
NextQueue == Step(QueueTargets, QueueCallables, QueuePriorities, Outcomes)

SpecQueue == Init /\ [][NextQueue]_vars

----
\* A dispatch has run through its loop: it has returned, and no callable
\* has stopped it.
Completed ==
    /\ call.op = "dispatch"
    /\ call.status = "returned"
    /\ call.last \notin {STOP, "raise"}

\* The target of the call is one whose callables a dispatch calls.
Enabled == call.target \in DOMAIN cache /\ call.target \notin disabled

\* The priorities of a list of entries, in the order of the list.
priorities(list) == [i \in DOMAIN list |-> list[i][1]]

\* The place of x in the sequence s (0 when it has none).
place(s, x) == IF \E i \in DOMAIN s : s[i] = x
               THEN CHOOSE i \in DOMAIN s : s[i] = x ELSE 0

\* C1: a dispatch that no callable stops calls the callables registered for
\* its target in nondecreasing order of priority, each of them exactly once
\* and no other, whatever add and discard have made of the list.
C1_DispatchInPriorityOrder ==
    Completed /\ Enabled =>
        /\ \A i, j \in DOMAIN call.fired :
              i < j => call.fired[i][1] <= call.fired[j][1]
        /\ \A i, j \in DOMAIN call.fired :
              i # j => call.fired[i][2] # call.fired[j][2]
        /\ entries(call.fired) = entries(cache[call.target])
        /\ Len(call.fired) = Len(cache[call.target])

\* The priorities -1, 3 and 5 are fired in this order from a list that
\* discard has left in an order that is no heap.
C1_Witness ==
    /\ Completed /\ Enabled
    /\ priorities(call.fired) = <<-1, 3, 5>>
    /\ priorities(cache[call.target]) = <<3, -1, 5>>

\* C2: callables of equal priority are called in the order in which they
\* were added.
C2_TiesInInsertionOrder ==
    Completed /\ Enabled =>
        \A i, j \in DOMAIN call.fired :
            i < j /\ call.fired[i][1] = call.fired[j][1] =>
                place(added[call.target], call.fired[i][2])
                    < place(added[call.target], call.fired[j][2])

\* No list holds a callable twice.
NoDuplicates ==
    \A t \in DOMAIN cache : \A i, j \in DOMAIN cache[t] :
        i # j => cache[t][i][2] # cache[t][j][2]

\* An add that returns leaves one entry for its callable, with the priority
\* given, and leaves every other entry of every target as it was.
AddReplaces ==
    call'.op = "add" /\ call'.ret = TRUE =>
        /\ entriesOf(cache', call'.target) =
              {e \in entriesOf(cache, call'.target) : e[2] # call'.callable}
                  \cup {<<call'.priority, call'.callable>>}
        /\ Len(cache'[call'.target]) = Cardinality(entriesOf(cache', call'.target))
        /\ \A t \in Targets \ {call'.target} :
              /\ t \in DOMAIN cache' <=> t \in DOMAIN cache
              /\ t \in DOMAIN cache => cache'[t] = cache[t]

\* C3: no list ever holds a callable twice, and adding a callable that is
\* registered replaces its entry and changes no other entry.
C3_AddReplacesEntry == []NoDuplicates /\ [][AddReplaces]_vars

\* A callable of a target with two callables has been given a new priority
\* while the other target has callables too.
C3_Witness ==
    /\ call.op = "add" /\ call.ret = TRUE /\ call.replaced
    /\ Len(cache[call.target]) = 2
    /\ \E t \in DOMAIN cache : t # call.target /\ cache[t] # <<>>

\* The dispatch has called the entries of lower priority than e, and none
\* of higher priority.
UpTo(e) ==
    \A x \in entriesOf(cache, call.target) :
        /\ x[1] < e[1] => x \in entries(call.fired)
        /\ x[1] > e[1] => x \notin entries(call.fired)

\* A dispatch that a callable has stopped, by STOP or by an exception, has
\* returned, having called what comes before that callable and nothing that
\* comes after it.
StoppedDispatch ==
    call.op = "dispatch" /\ call.last \in {STOP, "raise"} =>
        /\ call.status = "returned"
        /\ call.fired # <<>>
        /\ UpTo(call.fired[Len(call.fired)])
        /\ \A i \in DOMAIN call.fired :
              ~Lt(call.fired[Len(call.fired)], call.fired[i])

\* A dispatch that a callable has stopped calls nothing more.
NothingAfterStop ==
    call.op = "dispatch" /\ call.last \in {STOP, "raise"} =>
        \A o \in Outcomes : ~invoke(o)

\* C4: when a callable returns STOP or raises, the dispatch returns to its
\* caller without an exception; the callables before it in priority order
\* have been called and none after it is called.
C4_StopOrRaiseEndsDispatch == []StoppedDispatch /\ [][NothingAfterStop]_vars

\* The second of three callables has raised, and the dispatch has returned
\* without calling the third.
C4_Witness ==
    /\ call.op = "dispatch" /\ call.last = "raise" /\ call.status = "returned"
    /\ Len(call.fired) = 2 /\ Len(call.order) = 3
    /\ call.order[2][1] < call.order[3][1]

\* C5 as the specification states it: every returned value other than the
\* two sentinels ends the dispatch with a TypeError.
C5_AnyOtherValueIsTypeError ==
    call.op = "dispatch" /\ call.last \in ReturnValues \ {CONTINUE, STOP} =>
        call.status = "TypeError"

\* C5: a returned value ends the dispatch with a TypeError exactly when it is
\* an instance of prioritybase.result that is neither sentinel; CONTINUE and
\* every value that is no instance of prioritybase.result let the dispatch
\* go on to the next callable.
C5_OnlyUnknownResultIsTypeError ==
    call.op = "dispatch" /\ call.last \in ReturnValues =>
        /\ call.status = "TypeError" <=> call.last \in result \ {CONTINUE, STOP}
        /\ call.last \notin result \/ call.last = CONTINUE =>
              IF Len(call.fired) < Len(call.order)
              THEN call.status = "running" ELSE call.status = "returned"

\* A callable has returned None and the dispatch goes on to the next one.
C5_Witness ==
    /\ call.op = "dispatch" /\ call.last = "None" /\ call.status = "running"
    /\ Len(call.fired) < Len(call.order)

\* No step of a dispatch changes a list of callables or the disabled set.
DispatchChangesNothing ==
    call'.op = "dispatch" => cache' = cache /\ disabled' = disabled

\* The dispatch that follows one that caught an exception calls all the
\* callables of its target, in the order of their priorities.
AllFiredAfterRaise ==
    Completed /\ Enabled /\ call.after = "raise" =>
        /\ entries(call.fired) = entries(cache[call.target])
        /\ \A i, j \in DOMAIN call.fired :
              i < j => call.fired[i][1] <= call.fired[j][1]

\* C6: a dispatch in which a callable raises leaves the lists of callables
\* and the disabled set as they were, and the next dispatch of the target
\* calls all its callables again.
C6_RaiseLeavesRegistrations == [][DispatchChangesNothing]_vars /\ []AllFiredAfterRaise

\* After a dispatch that caught an exception, the next one has called three
\* callables.
C6_Witness ==
    /\ Completed /\ Enabled /\ call.after = "raise"
    /\ Len(call.fired) = 3

\* A dispatch of a disabled target calls nothing.
DisabledFiresNothing ==
    call.op = "dispatch" /\ call.target \in disabled => call.fired = <<>>

\* A target that disable has disabled stays disabled until an enable of it
\* returns True.
DisabledUntilEnable ==
    /\ call'.op = "disable" /\ call'.ret => call'.target \in disabled'
    /\ \A t \in disabled \ disabled' :
          call'.op = "enable" /\ call'.target = t /\ call'.ret

\* disable and enable change no list of callables and no connection.
ToggleKeepsCallables ==
    call'.op \in {"disable", "enable"} =>
        cache' = cache /\ connected' = connected

\* The dispatch that follows an enable calls the callables of the target.
AllFiredAfterEnable ==
    Completed /\ call.after = "enable" =>
        /\ call.target \notin disabled
        /\ entries(call.fired) = entriesOf(cache, call.target)

\* C7: a disabled target has none of its callables called until it is
\* enabled; disable and enable leave the lists of callables and the
\* connections alone, and after enable a dispatch calls the callables that
\* were registered.
C7_DisableSilencesTarget ==
    /\ []DisabledFiresNothing
    /\ [][DisabledUntilEnable /\ ToggleKeepsCallables]_vars
    /\ []AllFiredAfterEnable

\* A target with two callables has been enabled again and a dispatch has
\* called them both.
C7_Witness ==
    /\ Completed /\ call.after = "enable"
    /\ Len(call.fired) = 2

\* C8: enable of a target that is not disabled, disable of a disabled
\* target and disable of a target without callables return False and change
\* nothing.
C8_MisuseReturnsFalse ==
    [][/\ call'.op = "enable" /\ call'.target \notin disabled =>
             ~call'.ret /\ disabled' = disabled /\ cache' = cache
       /\ call'.op = "disable" /\ call'.target \in disabled =>
             ~call'.ret /\ disabled' = disabled /\ cache' = cache
       /\ call'.op = "disable" /\ entriesOf(cache, call'.target) = {} =>
             ~call'.ret /\ disabled' = disabled /\ cache' = cache]_vars

\* self.available, and the targets that iteration yields.
available == DOMAIN cache

\* What discard does to the lists and what it returns.
DiscardRemoves ==
    call'.op = "discard" =>
        /\ call'.ret <=> \E e \in entriesOf(cache, call'.target) :
                            e[2] = call'.callable
        /\ entriesOf(cache', call'.target) =
              {e \in entriesOf(cache, call'.target) : e[2] # call'.callable}
        /\ entriesOf(cache', call'.target) = {} => call'.target \notin available'
        /\ \A t \in Targets \ {call'.target} :
              /\ t \in DOMAIN cache' <=> t \in DOMAIN cache
              /\ t \in DOMAIN cache => cache'[t] = cache[t]

\* C9: discard returns True exactly when the target held the callable; it
\* removes the entries of the callable and no other, and a target whose list
\* becomes empty is no longer available.
C9_DiscardRemovesCallable == [][DiscardRemoves]_vars

\* The last callable of a target has been discarded, the target is gone and
\* the other target has kept its callables.
C9_Witness ==
    /\ call.op = "discard" /\ call.ret
    /\ call.target \notin available
    /\ \E t \in available : cache[t] # <<>>

\* C10: add calls connect exactly when the target has no callables, never
\* for an available target, and an add that connect refuses raises and
\* changes nothing.
C10_AddConnectsOnFirstUse ==
    [][call'.op = "add" =>
          /\ call'.connect <=> entriesOf(cache, call'.target) = {}
          /\ call'.connect => call'.target \notin available
          /\ \A t \in Targets, c \in Callables, p \in Priorities :
                t \notin available /\ add(t, c, p, FALSE) =>
                    /\ call'.raises = "NameError"
                    /\ UNCHANGED <<cache, disabled, traceback>>]_vars

\* C11: add never calls connect for a target that the host is still
\* connected to: a target whose last callable was discarded has been
\* disconnected before add connects it again.
C11_NoConnectWhileConnected ==
    [][call'.op = "add" /\ call'.connect => call'.target \notin connected]_vars

(***************************************************************************)
(* class typemap: the codec between pythonic types and (flag, typeid,      *)
(* size).                                                                  *)
(***************************************************************************)

\* The largest array count that is tried.
MaxCount == 2

\* A 32-bit flag word is the pair of its 16-bit halves <<high, low>>, and
\* the bitwise operators act on each half.
RECURSIVE BitAnd(_, _)
BitAnd(a, b) ==
    IF a = 0 \/ b = 0 THEN 0
    ELSE (a % 2) * (b % 2) + 2 * BitAnd(a \div 2, b \div 2)

RECURSIVE BitOr(_, _)
BitOr(a, b) ==
    IF a = 0 THEN b
    ELSE IF b = 0 THEN a
    ELSE (IF a % 2 = 1 \/ b % 2 = 1 THEN 1 ELSE 0) + 2 * BitOr(a \div 2, b \div 2)

and(f, g) == <<BitAnd(f[1], g[1]), BitAnd(f[2], g[2])>>
or(f, g) == <<BitOr(f[1], g[1]), BitOr(f[2], g[2])>>
abs(n) == IF n < 0 THEN -n ELSE n

\* The flags of the host (idaapi, version 7).
FF_DATA == <<0, \h0400>>
FF_SIGN == <<\h0002, 0>>
FF_STRUCT == <<\h6000, 0>>
byte_flag == or(FF_DATA, <<\h0000, 0>>)
word_flag == or(FF_DATA, <<\h1000, 0>>)
dword_flag == or(FF_DATA, <<\h2000, 0>>)
qword_flag == or(FF_DATA, <<\h3000, 0>>)
tbyte_flag == or(FF_DATA, <<\h4000, 0>>)
strlit_flag == or(FF_DATA, <<\h5000, 0>>)
stru_flag == or(FF_DATA, FF_STRUCT)
oword_flag == or(FF_DATA, <<\h7000, 0>>)
float_flag == or(FF_DATA, <<\h8000, 0>>)
double_flag == or(FF_DATA, <<\h9000, 0>>)
packreal_flag == or(FF_DATA, <<\hA000, 0>>)
align_flag == or(FF_DATA, <<\hB000, 0>>)
custom_flag == or(FF_DATA, <<\hD000, 0>>)
yword_flag == or(FF_DATA, <<\hE000, 0>>)
off_flag == <<\h0550, 0>>
STRTYPE_C == 0
STRTYPE_C_16 == 1
\* idaapi.BADADDR, the address of all ones: it is only compared, so the
\* largest integer stands for it.
BADADDR == 2147483647

\* idaapi.get_data_elsize(BADADDR, flag, opinfo): the size of one element
\* of the flag's kind; one byte for a string of single-byte characters.
get_data_elsize(flag) ==
    LET dt == and(flag, <<\hF000, 0>>)[1] \div \h1000
    IN  CASE dt = 0 -> 1 [] dt = 1 -> 2 [] dt = 2 -> 4 [] dt = 3 -> 8
          [] dt = 4 -> 10 [] dt = 5 -> 1 [] dt = 7 -> 16 [] dt = 8 -> 4
          [] dt = 9 -> 8 [] dt = 10 -> 12 [] dt = 11 -> 1 [] dt = 14 -> 32

FF_MASKSIZE == <<\hF000, 0>>
FF_MASK == <<\hFFF0, 0>>

integermap ==
    [sz \in {1, 2, 4, 8, 10, 16, 32} |->
        CASE sz = 1 -> <<byte_flag, -1>> [] sz = 2 -> <<word_flag, -1>>
          [] sz = 4 -> <<dword_flag, -1>> [] sz = 8 -> <<qword_flag, -1>>
          [] sz = 10 -> <<tbyte_flag, -1>> [] sz = 16 -> <<oword_flag, -1>>
          [] sz = 32 -> <<yword_flag, -1>>]

decimalmap ==
    [sz \in {4, 8, 10, 12} |->
        CASE sz = 4 -> <<float_flag, -1>> [] sz = 8 -> <<double_flag, -1>>
          [] sz = 10 -> <<packreal_flag, -1>> [] sz = 12 -> <<packreal_flag, -1>>]

stringmap ==
    [t \in {"chr", "str", "unicode"} |->
        IF t = "unicode" THEN <<strlit_flag, STRTYPE_C_16>>
        ELSE <<strlit_flag, STRTYPE_C>>]

ptrmap ==
    [sz \in DOMAIN integermap |->
        <<or(off_flag, integermap[sz][1]), integermap[sz][2]>>]

nonemap == <<align_flag, -1>>

\* The lookup table for a type: the name of the map of a type.
typemap ==
    [t \in {"int", "float", "str", "chr", "unicode", "type", "None"} |->
        CASE t = "int" -> "integermap" [] t = "float" -> "decimalmap"
          [] t \in {"str", "chr", "unicode"} -> "stringmap"
          [] t = "type" -> "ptrmap" [] t = "None" -> "nonemap"]

\* The entries of a map under its integer keys.
widths(table) ==
    CASE table = "integermap" -> integermap
      [] table = "decimalmap" -> decimalmap
      [] table = "ptrmap" -> ptrmap
      [] OTHER -> <<>>

\* The keys of a dictionary are iterated in an order that the interpreter
\* chooses, and a later item replaces an earlier item of the same key:
\* `real` is the width of decimalmap that is iterated last. The key of
\* stringmap that is iterated last is a type, whichever it is.
invert(real) ==
    LET ints == [k \in {and(integermap[sz][1], FF_MASKSIZE) : sz \in DOMAIN integermap} |->
                    [t |-> "int",
                     s |-> [class |-> "int",
                            value |-> CHOOSE sz \in DOMAIN integermap :
                                         and(integermap[sz][1], FF_MASKSIZE) = k]]]
        reals == [k \in {and(decimalmap[sz][1], FF_MASKSIZE) : sz \in DOMAIN decimalmap} |->
                    [t |-> "float",
                     s |-> [class |-> "int",
                            value |-> IF and(decimalmap[real][1], FF_MASKSIZE) = k THEN real
                                      ELSE CHOOSE sz \in DOMAIN decimalmap :
                                              and(decimalmap[sz][1], FF_MASKSIZE) = k]]]
        strings == [k \in {and(stringmap[t][1], FF_MASKSIZE) : t \in DOMAIN stringmap} |->
                    [t |-> "str", s |-> [class |-> "type"]]]
        ptrs == [k \in {and(ptrmap[sz][1], FF_MASK) : sz \in DOMAIN ptrmap} |->
                    [t |-> "type",
                     s |-> [class |-> "int",
                            value |-> CHOOSE sz \in DOMAIN ptrmap :
                                         and(ptrmap[sz][1], FF_MASK) = k]]]
        hack == FF_STRUCT :> [t |-> "int", s |-> [class |-> "int", value |-> 1]]
    IN  hack @@ ptrs @@ strings @@ reals @@ ints

\* The body of the class builds the inverted lookup table, once.
typemap_inverted(real) ==
    /\ inverted = <<>>
    /\ inverted' = invert(real)
    /\ UNCHANGED <<defaults, prc, tcall>>

\* A processor notification: the database reports its word size, and
\* only a 32-bit or a 64-bit database sets the default entries (the None
\* keys) of the four maps.
newprc_always64(bits) ==
    /\ inverted # <<>>
    /\ defaults' = [integermap |-> integermap[8], decimalmap |-> decimalmap[8],
                    ptrmap |-> ptrmap[8], stringmap |-> stringmap["str"]]
    /\ prc' = [bits |-> bits, wide |-> IF bits \in {32, 64} THEN bits ELSE prc.wide]
    /\ UNCHANGED <<inverted, tcall>>

newprc(bits) ==
    /\ inverted # <<>>
    /\ defaults' =
          IF bits \in {32, 64}
          THEN [integermap |-> integermap[bits \div 8],
                decimalmap |-> decimalmap[bits \div 8],
                ptrmap |-> ptrmap[bits \div 8],
                stringmap |-> stringmap["str"]]
          ELSE defaults
    /\ prc' = [bits |-> bits, wide |-> IF bits \in {32, 64} THEN bits ELSE prc.wide]
    /\ UNCHANGED <<inverted, tcall>>

\* The pythonic types: a bare type, a tuple (t, sz), a list [res, count]
\* and a structure of the structure registry.
Bare(t) == [form |-> "bare", t |-> t]
Tuple(t, sz) == [form |-> "tuple", t |-> t, sz |-> sz]
List(res, count) == [form |-> "list", res |-> res, count |-> count]

\* The structure registry holds one structure of three bytes.
StructureId == 1
StructureSize == 3
structure_t == [form |-> "struct", id |-> StructureId, size |-> StructureSize]

by_identifier(typeid) ==
    IF typeid = structure_t.id THEN [raises |-> "none", ret |-> structure_t]
    ELSE [raises |-> "UnsupportedEncoding"]

\* The last two statements of resolve.
resolve_return_unsigned(flag, typeid, sz, count) ==
    [raises |-> "none",
     flag |-> flag,
     typeid |-> IF typeid < 0 THEN BADADDR ELSE typeid,
     size |-> abs(sz) * count]

resolve_return(flag, typeid, sz, count) ==
    [raises |-> "none",
     flag |-> or(flag, IF sz < 0 THEN FF_SIGN ELSE <<0, 0>>),
     typeid |-> IF typeid < 0 THEN BADADDR ELSE typeid,
     size |-> abs(sz) * count]

KeyError == [raises |-> "KeyError"]

RECURSIVE resolve(_)
resolve(pythonType) ==
    CASE pythonType.form = "tuple" ->
            LET t == pythonType.t
                sz == pythonType.sz
            IN  IF t \notin DOMAIN typemap THEN KeyError
                ELSE IF t \in {"int", "float", "type"}
                THEN LET table == widths(typemap[t])
                     IN  IF abs(sz) \notin DOMAIN table THEN KeyError
                         ELSE resolve_return(table[abs(sz)][1], table[abs(sz)][2], sz, 1)
                ELSE LET item == IF typemap[t] = "nonemap" THEN nonemap ELSE stringmap[t]
                     IN  resolve_return(item[1], item[2], sz, 1)
      [] pythonType.form = "list" ->
            LET res == resolve(pythonType.res)
            IN  IF res.raises # "none" THEN res
                ELSE resolve_return(res.flag, res.typeid, res.size, pythonType.count)
      [] pythonType.form = "struct" ->
            resolve_return(stru_flag, pythonType.id, pythonType.size, 1)
      [] pythonType.form = "bare" ->
            LET t == pythonType.t
            IN  IF t \notin DOMAIN typemap THEN KeyError
                ELSE IF typemap[t] # "nonemap" /\ typemap[t] \notin DOMAIN defaults
                THEN KeyError
                ELSE LET item == IF typemap[t] = "nonemap" THEN nonemap
                                 ELSE defaults[typemap[t]]
                     IN  [raises |-> "none",
                          flag |-> item[1],
                          typeid |-> IF item[2] < 0 THEN BADADDR ELSE item[2],
                          size |-> get_data_elsize(item[1])]

dissolve(flag, typeid, size) ==
    LET dt == and(flag, FF_MASKSIZE)
        sf == IF and(flag, FF_SIGN) = FF_SIGN THEN -1 ELSE 1
    IN  IF dt = FF_STRUCT
        THEN LET t == by_identifier(typeid)
             IN  IF t.raises # "none" THEN t
                 ELSE IF t.ret.size = size THEN t
                 ELSE [raises |-> "none", ret |-> List(t.ret, size \div t.ret.size)]
        ELSE IF dt \notin DOMAIN inverted
        THEN [raises |-> "InvalidTypeOrValueError"]
        ELSE LET t == inverted[dt].t
                 sz == inverted[dt].s
             IN  IF sz.class # "int"
                 THEN LET count == size \div get_data_elsize(dt)
                      IN  [raises |-> "none",
                           ret |-> IF count > 1 THEN List(Bare(t), count) ELSE Bare(t)]
                 ELSE IF sz.value = size
                 THEN [raises |-> "none", ret |-> Tuple(t, sz.value * sf)]
                 ELSE [raises |-> "none",
                       ret |-> List(Tuple(t, sz.value * sf), size \div sz.value)]

\* The inputs that are tried.
Kinds == {"int", "float", "type", "str", "chr", "None", "bool"}
Widths == {3, 4, 10, 12}
Elements ==
    {Bare(t) : t \in Kinds}
        \cup {Tuple(t, sz) : t \in Kinds, sz \in Widths \cup {-w : w \in Widths}}
        \cup {structure_t}
PythonTypes == Elements \cup {List(res, count) : res \in Elements, count \in 1..MaxCount}
Flags ==
    {or(flag, sign) :
        flag \in {dword_flag, or(off_flag, dword_flag), strlit_flag, stru_flag,
                  float_flag, packreal_flag, align_flag, custom_flag},
        sign \in {<<0, 0>>, FF_SIGN}}
Sizes == {0, 3, 4, 5, 6, 10, 12}
Encodings ==
    {[flag |-> flag, typeid |-> BADADDR, size |-> size] :
        flag \in Flags, size \in Sizes}
        \cup {[flag |-> stru_flag, typeid |-> StructureId, size |-> size] : size \in Sizes}

\* The value the latest call returned, if it returned one.
encoded ==
    IF tcall.op = "resolve" /\ tcall.out.raises = "none"
    THEN {[flag |-> tcall.out.flag, typeid |-> tcall.out.typeid, size |-> tcall.out.size]}
    ELSE {}
decoded ==
    IF tcall.op = "dissolve" /\ tcall.out.raises = "none" THEN {tcall.out.ret} ELSE {}

\* A call of typemap.resolve; `of` is the encoding whose dissolve returned
\* the argument, if the previous call did, and `prc` the notifications
\* that came before a call that reads the default entries.
Resolve(pythonType) ==
    /\ inverted # <<>>
    /\ tcall' = [op |-> "resolve",
                 arg |-> pythonType,
                 of |-> IF pythonType \in decoded THEN {tcall.arg} ELSE {},
                 prc |-> IF pythonType.form = "bare"
                            \/ (pythonType.form = "list" /\ pythonType.res.form = "bare")
                         THEN {prc} ELSE {},
                 out |-> resolve(pythonType)]
    /\ UNCHANGED <<inverted, defaults, prc>>

\* A call of typemap.dissolve; `of` is the type whose resolve returned the
\* arguments, if the previous call did.
Dissolve(x) ==
    /\ inverted # <<>>
    /\ tcall' = [op |-> "dissolve",
                 arg |-> x,
                 of |-> IF x \in encoded THEN {tcall.arg} ELSE {},
                 out |-> dissolve(x.flag, x.typeid, x.size)]
    /\ UNCHANGED <<inverted, defaults, prc>>

NextTypes ==
    \/ \E real \in {10, 12} : typemap_inverted(real) /\ UNCHANGED <<qvars, rvars>>
    \/ \E bits \in {16, 32, 64} : newprc(bits) /\ UNCHANGED <<qvars, rvars>>
    \/ \E pythonType \in PythonTypes : Resolve(pythonType) /\ UNCHANGED <<qvars, rvars>>
    \/ \E pythonType \in decoded : Resolve(pythonType) /\ UNCHANGED <<qvars, rvars>>
    \/ \E x \in Encodings : Dissolve(x) /\ UNCHANGED <<qvars, rvars>>
    \/ \E x \in encoded : Dissolve(x) /\ UNCHANGED <<qvars, rvars>>

SpecTypes == Init /\ [][NextTypes]_vars

\* An array of one element stands for its element.
collapse(pythonType) ==
    IF pythonType.form = "list" /\ pythonType.count = 1 THEN pythonType.res
    ELSE pythonType

\* The type of the element and the count of a type.
element(pythonType) == IF pythonType.form = "list" THEN pythonType.res ELSE pythonType
count(pythonType) == IF pythonType.form = "list" THEN pythonType.count ELSE 1

\* The argument of the call whose result the latest call was given.
origin == CHOOSE x \in tcall.of : TRUE

\* The types with a width of their own: an integer, a float or a pointer
\* of a width, a character or a string, an alignment, and arrays of these.
semantic(pythonType) ==
    LET t == element(pythonType)
    IN  \/ t.form = "tuple" /\ t.t \in {"int", "float", "type"}
        \/ t.form = "bare" /\ t.t \in {"str", "chr", "None"}

\* C12: dissolve applied to what resolve returned for a type gives the
\* type back, up to an array of one element standing for its element.
C12_DissolveInvertsResolve ==
    tcall.op = "dissolve" /\ tcall.of # {} /\ semantic(origin) =>
        /\ tcall.out.raises = "none"
        /\ collapse(tcall.out.ret) = collapse(origin)

\* The width of one element of the kind of an encoding: the encoding is
\* whole when its size is one or more elements.
elsize(x) ==
    LET dt == and(x.flag, FF_MASKSIZE)
    IN  IF dt = FF_STRUCT THEN StructureSize
        ELSE IF inverted[dt].s.class = "int" THEN inverted[dt].s.value
        ELSE get_data_elsize(dt)
whole(x) == x.size > 0 /\ x.size % elsize(x) = 0

\* C13: resolve applied to what dissolve returned for a whole encoding,
\* once the defaults are set, gives the same size, pointer and sign bits
\* of the flag and the same size in bytes, and the invalid typeid unless
\* the encoding is of a structure.
C13_ResolveInvertsDissolve ==
    /\ tcall.op = "resolve"
    /\ tcall.of # {}
    /\ whole(origin)
    /\ \A n \in tcall.prc : n.wide # 0
    =>  /\ tcall.out.raises = "none"
        /\ and(tcall.out.flag, or(FF_MASK, FF_SIGN)) = and(origin.flag, or(FF_MASK, FF_SIGN))
        /\ tcall.out.size = origin.size
        /\ and(origin.flag, FF_MASKSIZE) # FF_STRUCT => tcall.out.typeid = BADADDR

\* C14: dissolve never returns an array of one element.
C14_NoArrayOfOne ==
    tcall.op = "dissolve" /\ tcall.out.raises = "none" /\ tcall.out.ret.form = "list" =>
        tcall.out.ret.count # 1

\* The sign bit of the flag that resolve returned.
signed == and(tcall.out.flag, FF_SIGN) = FF_SIGN
returned == tcall.op = "resolve" /\ tcall.out.raises = "none"

\* C15 as stated: resolve sets the sign bit exactly for an integer or a
\* float of negative width, and the size is the absolute width times the
\* count.
C15_SignOnlyForNumbers ==
    returned =>
        /\ signed <=> /\ element(tcall.arg).form = "tuple"
                      /\ element(tcall.arg).t \in {"int", "float"}
                      /\ element(tcall.arg).sz < 0
        /\ element(tcall.arg).form = "tuple" =>
              tcall.out.size = abs(element(tcall.arg).sz) * count(tcall.arg)

\* C15: resolve sets the sign bit exactly when the type, or the element of
\* the array, is a tuple of negative width, whatever its kind; the size is
\* the absolute width times the count.
C15_SignForNegativeWidth ==
    returned =>
        /\ signed <=> /\ element(tcall.arg).form = "tuple"
                      /\ element(tcall.arg).sz < 0
        /\ element(tcall.arg).form = "tuple" =>
              tcall.out.size = abs(element(tcall.arg).sz) * count(tcall.arg)
        /\ element(tcall.arg).form = "struct" =>
              tcall.out.size = element(tcall.arg).size * count(tcall.arg)

C15_Witness ==
    /\ returned
    /\ tcall.arg = List(Tuple("type", -4), MaxCount)
    /\ signed
    /\ tcall.out.size = 4 * MaxCount

\* The widths that the map of a kind holds.
supported(t) == IF t \in DOMAIN typemap THEN DOMAIN widths(typemap[t]) ELSE {}

\* C16: resolve of a tuple whose width the map of the kind does not hold,
\* or of an array of a type that is not recognized, raises
\* InvalidTypeOrValueError.
C16_InvalidTypeOrValueError ==
    /\ tcall.op = "resolve"
    /\ \/ /\ tcall.arg.form = "tuple"
          /\ tcall.arg.t \in {"int", "float", "type"}
          /\ abs(tcall.arg.sz) \notin supported(tcall.arg.t)
       \/ /\ tcall.arg.form = "list"
          /\ tcall.arg.res.form \in {"bare", "tuple"}
          /\ tcall.arg.res.t \notin DOMAIN typemap
    => tcall.out.raises = "InvalidTypeOrValueError"

\* A call of resolve for an integer, a float or a pointer without a width,
\* and the notifications that came before it.
defaulted ==
    /\ tcall.op = "resolve"
    /\ tcall.arg.form = "bare"
    /\ tcall.arg.t \in {"int", "float", "type"}
notified == CHOOSE x \in tcall.prc : TRUE

MaxRegisters == 4

\* The registers that an architecture registers, in this order; a
\* register is known by its place in `regs`, which stands for the identity
\* of the object.
RegisterTable ==
    <<[name |-> "eax", bits |-> 32, idaname |-> "ax"],
      [name |-> "ax", bits |-> 16, idaname |-> ""],
      [name |-> "al", bits |-> 8, idaname |-> ""],
      [name |-> "ah", bits |-> 8, idaname |-> ""],
      [name |-> "bx", bits |-> 16, idaname |-> ""]>>
Positions == {0, 8}
None == 0
registers == 1..Len(regs)

\* idaapi.get_dtype_by_size: dt_byte, dt_word and dt_dword.
dtype_by_size(bytes) == CASE bytes = 1 -> 0 [] bytes = 2 -> 1 [] bytes = 4 -> 2

\* dict.__setitem__
setitem(dict, key, value) == (key :> value) @@ dict

\* The object that new and child construct.
register_t(name, parent, position, bits, idaname, alias) ==
    [name |-> name, parent |-> parent, children |-> <<>>,
     dtype |-> dtype_by_size(bits \div 8), position |-> position, size |-> bits,
     realname |-> idaname, alias |-> alias]

new(name, bits, idaname, alias) ==
    LET res == register_t(name, None, 0, bits, idaname, alias)
    IN  /\ regs' = Append(regs, res)
        /\ rstate' = setitem(rstate, name, Len(regs) + 1)
        /\ rcache' = setitem(rcache, <<IF idaname # "" THEN idaname ELSE name, res.dtype>>, name)
        /\ rcall' = [op |-> "new", ret |-> Len(regs) + 1]

child(parent, name, position, bits, idaname, alias) ==
    LET res == register_t(name, parent, position, bits, idaname, alias)
    IN  /\ regs' = Append([regs EXCEPT ![parent].children = setitem(@, position, Len(regs) + 1)],
                          res)
        /\ rstate' = setitem(rstate, name, Len(regs) + 1)
        /\ rcache' = setitem(rcache, <<IF idaname # "" THEN idaname ELSE name, res.dtype>>, name)
        /\ rcall' = [op |-> "child", ret |-> Len(regs) + 1]

\* The values of a node's __children__.
values(node) == {regs[node].children[position] : position \in DOMAIN regs[node].children}

RECURSIVE collect(_)
collect(node) == {node} \cup UNION {collect(item) : item \in values(node)}

\* The set that the loop of supersetQ fills, starting at `pos`.
RECURSIVE parents(_)
parents(pos) == IF pos = None THEN {} ELSE {pos} \cup parents(regs[pos].parent)

subsetQ_children(self, other) ==
    other \in regs[self].alias \/ other \in {self} \cup values(self)

subsetQ(self, other) == other \in regs[self].alias \/ other \in collect(self)

supersetQ_parent(self, other) ==
    other \in regs[self].alias \/ other \in {self, regs[self].parent}

supersetQ(self, other) == other \in regs[self].alias \/ other \in parents(self)

relatedQ(self, other) == supersetQ(self, other) \/ subsetQ(self, other)

\* The calls of the three methods of a register.
SubsetQ(self, other) ==
    /\ rcall' = [op |-> "subsetQ", self |-> self, other |-> other, ret |-> subsetQ(self, other)]
    /\ UNCHANGED <<regs, rstate, rcache>>

SupersetQ(self, other) ==
    /\ rcall' = [op |-> "supersetQ", self |-> self, other |-> other, ret |-> supersetQ(self, other)]
    /\ UNCHANGED <<regs, rstate, rcache>>

RelatedQ(self, other) ==
    /\ rcall' = [op |-> "relatedQ", self |-> self, other |-> other, ret |-> relatedQ(self, other)]
    /\ UNCHANGED <<regs, rstate, rcache>>

\* The alias sets that are tried: none, or one register that exists.
Aliases == {{}} \cup {{item} : item \in registers}

\* An architecture registers the entries of a table one after another,
\* each as a full register or as a child of a register that exists.
RegisterStep(table) ==
    \/ \E alias \in Aliases :
          /\ Len(regs) < MaxRegisters
          /\ LET item == table[Len(regs) + 1]
             IN  new(item.name, item.bits, item.idaname, alias)
          /\ UNCHANGED <<qvars, tvars>>
    \/ \E parent \in registers, position \in Positions, alias \in Aliases :
          /\ Len(regs) < MaxRegisters
          /\ LET item == table[Len(regs) + 1]
             IN  child(parent, item.name, position, item.bits, item.idaname, alias)
          /\ UNCHANGED <<qvars, tvars>>
    \/ \E self \in registers, other \in registers :
          SubsetQ(self, other) /\ UNCHANGED <<qvars, tvars>>
    \/ \E self \in registers, other \in registers :
          SupersetQ(self, other) /\ UNCHANGED <<qvars, tvars>>
    \/ \E self \in registers, other \in registers :
          RelatedQ(self, other) /\ UNCHANGED <<qvars, tvars>>

NextRegs == RegisterStep(RegisterTable)
SpecRegs == Init /\ [][NextRegs]_vars

\* The hierarchy of three levels: a root of 32 bits, its child of 16 bits
\* at bit 0, the grandchild of 8 bits at bit 0 and its sibling of 8 bits at
\* bit 8 of the child, all without aliases.
root == rstate["eax"]
middle == rstate["ax"]
grandchild == rstate["al"]
sibling == rstate["ah"]
Hierarchy ==
    /\ Len(regs) = 4
    /\ \A item \in registers : regs[item].alias = {}
    /\ regs[root].parent = None /\ regs[root].size = 32
    /\ regs[middle].parent = root /\ regs[middle].position = 0 /\ regs[middle].size = 16
    /\ regs[grandchild].parent = middle /\ regs[grandchild].position = 0
    /\ regs[grandchild].size = 8
    /\ regs[sibling].parent = middle /\ regs[sibling].position = 8
    /\ regs[sibling].size = 8

\* The latest call is the method `op` of register `self` given `other`.
Asked(op, self, other) == rcall.op = op /\ rcall.self = self /\ rcall.other = other

\* C18 as stated: in the hierarchy the grandchild is a subset of the root
\* (root.subsetQ), the root is a superset of the grandchild
\* (root.supersetQ), both are related in both directions and the sibling
\* is related to the grandchild in neither.
C18_RootSupersetOfGrandchild ==
    Hierarchy =>
        /\ Asked("subsetQ", root, grandchild) => rcall.ret
        /\ Asked("supersetQ", root, grandchild) => rcall.ret
        /\ Asked("relatedQ", root, grandchild) => rcall.ret
        /\ Asked("relatedQ", grandchild, root) => rcall.ret
        /\ Asked("relatedQ", sibling, grandchild) => ~rcall.ret
        /\ Asked("relatedQ", grandchild, sibling) => ~rcall.ret

\* C18: in the hierarchy root.subsetQ(grandchild) and
\* grandchild.supersetQ(root) are true, root.supersetQ(grandchild) and
\* grandchild.subsetQ(root) are false, both are related in both directions
\* and the sibling is related to the grandchild in neither.
C18_GrandchildSupersetIsRoot ==
    Hierarchy =>
        /\ Asked("subsetQ", root, grandchild) => rcall.ret
        /\ Asked("supersetQ", grandchild, root) => rcall.ret
        /\ Asked("supersetQ", root, grandchild) => ~rcall.ret
        /\ Asked("subsetQ", grandchild, root) => ~rcall.ret
        /\ Asked("relatedQ", root, grandchild) => rcall.ret
        /\ Asked("relatedQ", grandchild, root) => rcall.ret
        /\ Asked("relatedQ", sibling, grandchild) => ~rcall.ret
        /\ Asked("relatedQ", grandchild, sibling) => ~rcall.ret

C18_Witness == Hierarchy /\ Asked("supersetQ", grandchild, root) /\ rcall.ret

\* The registers reached from a register in at most n steps through the
\* values of __children__, and through __parent__.
RECURSIVE Below(_, _)
Below(node, n) ==
    IF n = 0 THEN {node}
    ELSE Below(node, n - 1)
            \cup {item \in registers :
                    \E holder \in Below(node, n - 1) :
                        \E position \in DOMAIN regs[holder].children :
                            regs[holder].children[position] = item}
RECURSIVE Above(_, _)
Above(node, n) ==
    IF n = 0 THEN {node}
    ELSE Above(node, n - 1)
            \cup ({regs[item].parent : item \in Above(node, n - 1)} \ {None})

\* C19: b.subsetQ(a) is true exactly when a is b, a descendant of b
\* through __children__ or in the alias set of b; a.supersetQ(b) exactly
\* when b is a, an ancestor of a through __parent__ or in the alias set of
\* a; relatedQ is the disjunction of the two.
C19_SubsetSupersetRelated ==
    rcall.op \in {"subsetQ", "supersetQ", "relatedQ"} =>
        LET self == rcall.self
            other == rcall.other
            below == other \in Below(self, Len(regs)) \/ other \in regs[self].alias
            above == other \in Above(self, Len(regs)) \/ other \in regs[self].alias
        IN  /\ rcall.op = "subsetQ" => (rcall.ret <=> below)
            /\ rcall.op = "supersetQ" => (rcall.ret <=> above)
            /\ rcall.op = "relatedQ" => (rcall.ret <=> above \/ below)

C19_Witness ==
    /\ rcall.op = "subsetQ"
    /\ rcall.ret
    /\ rcall.other \notin regs[rcall.self].alias
    /\ regs[rcall.other].parent \notin {None, rcall.self}
    /\ regs[regs[rcall.other].parent].parent = rcall.self

\* C20: two registers that no containment relates and of which one was
\* given in the alias set of the other are related in both directions.
C20_AliasesMutuallyRelated ==
    /\ rcall.op = "relatedQ"
    /\ rcall.other \notin Below(rcall.self, Len(regs)) \cup Above(rcall.self, Len(regs))
    /\ \/ rcall.other \in regs[rcall.self].alias
       \/ rcall.self \in regs[rcall.other].alias
    => rcall.ret

(***************************************************************************)
(* The dispatch queue again: the disabled targets, get, and callables that *)
(* call back into the queue.                                               *)
(***************************************************************************)

\* C27: every disabled target is an available target, and a target that
\* add creates anew is not disabled after the add.
C27_DisabledAreAvailable ==
    [][/\ disabled' \subseteq DOMAIN cache'
       /\ call'.op = "add" /\ call'.raises = "none" /\ call'.target \notin DOMAIN cache
            => call'.target \notin disabled']_vars

\* C28: get changes neither the cache nor the connections, and every
\* available target has been connected.
C28_GetIsPure ==
    [][/\ call'.op = "get" => cache' = cache /\ connected' = connected
       /\ DOMAIN cache' \subseteq connected']_vars

\* A loop that reads the list of the target again at every turn: it calls
\* the first callable of the list that it has not called yet, and none for
\* a target that is skipped by now.
resume_live(outcome) ==
    /\ frames # <<>> /\ Idle
    /\ LET d == frames[1]
           live == IF skipped(d.target) THEN <<>>
                   ELSE SelectSeq(nsmallest(Len(cache[d.target]), cache[d.target]),
                                  LAMBDA x : \A i \in DOMAIN d.fired : d.fired[i] # x)
       IN  IF live = <<>>
           THEN call' = [d EXCEPT !.status = "returned", !.last = outcome]
           ELSE LET v == verdict(d.target, live[1][2], outcome)
                    status == IF v = "continue"
                              THEN IF Len(live) > 1 THEN "running" ELSE "returned"
                              ELSE IF v = "break" THEN "returned" ELSE v
                IN  call' = [d EXCEPT !.fired = Append(d.fired, live[1]),
                                      !.status = status, !.last = outcome]
    /\ frames' = Tail(frames)
    /\ UNCHANGED <<cache, disabled, traceback, connected, added>>

\* One turn of the loop of the closure whose callable called into the
\* queue before it returned: the call of the callable is over, and the
\* loop goes on with the list that it computed when the dispatch started.
resume(outcome) ==
    /\ frames # <<>> /\ Idle
    /\ LET d == frames[1]
           item == d.order[Len(d.fired) + 1]
           v == verdict(d.target, item[2], outcome)
           fired == Append(d.fired, item)
           status == IF v = "continue"
                     THEN IF Len(fired) < Len(d.order) THEN "running" ELSE "returned"
                     ELSE IF v = "break" THEN "returned" ELSE v
       IN  call' = [d EXCEPT !.fired = fired, !.status = status, !.last = outcome]
    /\ frames' = Tail(frames)
    /\ UNCHANGED <<cache, disabled, traceback, connected, added>>

\* The next callable of a running dispatch starts and calls into the
\* queue: the dispatch waits in `frames` for the callable to return.
Running == call.op = "dispatch" /\ call.status = "running" /\ frames = <<>>

\* The calls with callables that, while they run, make one call of add,
\* discard or disable for the target that is dispatched.
NextNested ==
    \/ frames = <<>> /\ Step(QueueTargets, QueueCallables, Priorities, Signals)
    \/ \E c \in QueueCallables, p \in Priorities, ok \in BOOLEAN :
          /\ Running
          /\ frames' = <<call>>
          /\ add(call.target, c, p, ok)
          /\ UNCHANGED <<tvars, rvars>>
    \/ \E c \in QueueCallables :
          /\ Running
          /\ frames' = <<call>>
          /\ discard(call.target, c)
          /\ UNCHANGED <<tvars, rvars>>
    \/ /\ Running
       /\ frames' = <<call>>
       /\ disable(call.target)
       /\ UNCHANGED <<tvars, rvars>>
    \/ \E o \in Signals : resume(o) /\ UNCHANGED <<tvars, rvars>>

SpecNested == Init /\ [][NextNested]_vars

\* C29: a dispatch goes on with the callables that were registered when it
\* started, in their order, whatever a callable did to the target while it
\* ran: the callable called next is the next one of that list, the loop
\* stops only for STOP, an exception or the end of that list, and it does
\* not fail.
C29_DispatchUsesSnapshot ==
    [][frames # <<>> /\ frames' = <<>> =>
          LET d == frames[1]
          IN  /\ call'.op = "dispatch"
              /\ call'.order = d.order
              /\ call'.fired = SubSeq(d.order, 1, Len(d.fired) + 1)
              /\ call'.status \in {"running", "returned"}
              /\ call'.status = "running" <=>
                    /\ call'.last = CONTINUE
                    /\ Len(call'.fired) < Len(d.order)]_vars

\* A dispatch has called, as its second callable, a callable that the
\* first one had discarded when it ran.
C29_Witness ==
    /\ call.op = "dispatch"
    /\ frames = <<>>
    /\ Len(call.fired) = 2
    /\ call.fired[2] \notin entriesOf(cache, call.target)
    /\ call.fired[1] \in entriesOf(cache, call.target)

(***************************************************************************)
(* architecture_t: registering a name again, and the lookups by_name,      *)
(* by_indextype, promote and demote.                                       *)
(***************************************************************************)

\* The registers of an architecture that registers the name "ax" twice.
ArchTable ==
    <<[name |-> "eax", bits |-> 32, idaname |-> "ax"],
      [name |-> "ax", bits |-> 16, idaname |-> ""],
      [name |-> "al", bits |-> 8, idaname |-> ""],
      [name |-> "ax", bits |-> 16, idaname |-> ""],
      [name |-> "Ah", bits |-> 8, idaname |-> ""]>>

\* idaapi.ph.regnames: the names that the host has for its indices.
regnames == <<"ax", "al", "bx">>

\* The dtypes that are asked for: dt_byte, dt_word and dt_dword.
Dtypes == {dtype_by_size(1), dtype_by_size(2), dtype_by_size(4)}

\* The names that are looked up, as the text after the prefix that
\* by_name strips, and the prefixes.
Names == {"ax", "AX", "Al", "Ah", "ah", "bx"}
Prefixes == {"", "%", "$"}

\* The sizes given to promote and demote; None for no size.
RegisterSizes == {None, 8, 16, 32}

\* str.lower
lower(name) ==
    CASE name = "AX" -> "ax"
      [] name = "Al" -> "al"
      [] name = "Ah" -> "ah"
      [] OTHER -> name

\* What a lookup returns, and what it raises.
return(reg) == [ret |-> reg, raises |-> "none"]
raise(exception) == [ret |-> None, raises |-> exception]

\* map_t.__getattr__
getattr(name) == IF name \in DOMAIN rstate THEN return(rstate[name]) ELSE raise("KeyError")

by_name(prefix, name) ==
    IF prefix \in {"%", "$"} THEN getattr(lower(name))
    ELSE IF lower(name) \in DOMAIN rstate THEN getattr(lower(name))
    ELSE getattr(name)

by_indextype(index, dtype) ==
    LET res == regnames[index]
    IN  IF <<res, dtype>> \in DOMAIN rcache THEN getattr(rcache[<<res, dtype>>])
        ELSE raise("KeyError")

\* A promote that goes to the parent before it compares the size.
RECURSIVE promote_above(_, _)
promote_above(reg, size) ==
    IF regs[reg].parent = None THEN raise("RegisterNotFoundError")
    ELSE IF size = None \/ regs[regs[reg].parent].size = size
         THEN return(regs[reg].parent)
    ELSE promote_above(regs[reg].parent, size)

RECURSIVE promote(_, _)
promote(reg, size) ==
    IF size = None
    THEN IF regs[reg].parent = None THEN raise("RegisterNotFoundError")
         ELSE return(regs[reg].parent)
    ELSE IF regs[reg].size = size THEN return(reg)
    ELSE IF regs[reg].parent = None THEN raise("RegisterNotFoundError")
    ELSE promote(regs[reg].parent, size)

\* The child that was registered at the highest position.
firstchild_highest(reg) ==
    LET children == regs[reg].children
    IN  children[CHOOSE position \in DOMAIN children :
                    \A item \in DOMAIN children : item <= position]

\* The first of the items of __children__ sorted by their key.
firstchild(reg) ==
    LET children == regs[reg].children
    IN  children[CHOOSE position \in DOMAIN children :
                    \A item \in DOMAIN children : position <= item]

RECURSIVE demote(_, _)
demote(reg, size) ==
    IF size = None
    THEN IF DOMAIN regs[reg].children = {} THEN raise("RegisterNotFoundError")
         ELSE return(firstchild(reg))
    ELSE IF regs[reg].size = size THEN return(reg)
    ELSE IF DOMAIN regs[reg].children = {} THEN raise("RegisterNotFoundError")
    ELSE demote(firstchild(reg), size)

\* The calls of the four lookups.
ByName(prefix, name) ==
    /\ rcall' = [op |-> "by_name", prefix |-> prefix, name |-> name] @@ by_name(prefix, name)
    /\ UNCHANGED <<regs, rstate, rcache>>

ByIndexType(index, dtype) ==
    /\ rcall' = [op |-> "by_indextype", index |-> index, dtype |-> dtype]
                    @@ by_indextype(index, dtype)
    /\ UNCHANGED <<regs, rstate, rcache>>

Promote(reg, size) ==
    /\ rcall' = [op |-> "promote", reg |-> reg, size |-> size]
                    @@ promote(reg, size)
    /\ UNCHANGED <<regs, rstate, rcache>>

Demote(reg, size) ==
    /\ rcall' = [op |-> "demote", reg |-> reg, size |-> size]
                    @@ demote(reg, size)
    /\ UNCHANGED <<regs, rstate, rcache>>

\* An architecture registers the entries of a table without aliases, and
\* its registers are looked up.
ArchStep(table) ==
    \/ /\ Len(regs) < MaxRegisters
       /\ LET item == table[Len(regs) + 1]
          IN  new(item.name, item.bits, item.idaname, {})
       /\ UNCHANGED <<qvars, tvars>>
    \/ \E parent \in registers, position \in Positions :
          /\ Len(regs) < MaxRegisters
          /\ LET item == table[Len(regs) + 1]
             IN  child(parent, item.name, position, item.bits, item.idaname, {})
          /\ UNCHANGED <<qvars, tvars>>
    \/ \E prefix \in Prefixes, name \in Names :
          ByName(prefix, name) /\ UNCHANGED <<qvars, tvars>>
    \/ \E index \in DOMAIN regnames, dtype \in Dtypes :
          ByIndexType(index, dtype) /\ UNCHANGED <<qvars, tvars>>
    \/ \E reg \in registers, size \in RegisterSizes :
          Promote(reg, size) /\ UNCHANGED <<qvars, tvars>>
    \/ \E reg \in registers, size \in RegisterSizes :
          Demote(reg, size) /\ UNCHANGED <<qvars, tvars>>

NextArch == ArchStep(ArchTable)
SpecArch == Init /\ [][NextArch]_vars

\* C21: a new or child for a name that the architecture has already
\* changes neither the registers, nor the map of the names, nor the cache.
C21_DuplicateNameRejected ==
    [][/\ rcall'.op \in {"new", "child"}
       /\ Len(regs) < Len(ArchTable)
       /\ ArchTable[Len(regs) + 1].name \in DOMAIN rstate
       => regs' = regs /\ rstate' = rstate /\ rcache' = rcache]_vars

\* C22: every register that has a parent lies within the bits of its parent.
C22_ChildWithinParent ==
    \A item \in registers :
        regs[item].parent # None =>
            regs[item].position + regs[item].size <= regs[regs[item].parent].size

\* The names of the registers of which `name` is a variant in another case.
Matches(name) == {item \in DOMAIN rstate : lower(item) = lower(name)}

\* C23: by_name of a variant of a registered name, with or without one of
\* the prefixes, returns the register of that name, and by_name of a name
\* that matches none raises RegisterNotFoundError.
C23_ByNameIgnoresCase ==
    rcall.op = "by_name" =>
        IF Matches(rcall.name) = {}
        THEN rcall.raises = "RegisterNotFoundError"
        ELSE /\ rcall.raises = "none"
             /\ regs[rcall.ret].name \in Matches(rcall.name)

\* The registers that were registered for the host name and the dtype.
Registered(hostname, dtype) ==
    {item \in registers :
        /\ regs[item].dtype = dtype
        /\ hostname = IF regs[item].realname # "" THEN regs[item].realname
                      ELSE regs[item].name}

\* C24: by_indextype returns a register that was registered for the host
\* name of the index and for the dtype, and raises RegisterNotFoundError
\* when none was.
C24_ByIndexTypeResolvesWidth ==
    rcall.op = "by_indextype" =>
        IF Registered(regnames[rcall.index], rcall.dtype) = {}
        THEN rcall.raises = "RegisterNotFoundError"
        ELSE /\ rcall.raises = "none"
             /\ rcall.ret \in Registered(regnames[rcall.index], rcall.dtype)

\* The chain of a register and its ancestors, nearest first.
RECURSIVE Ancestry(_)
Ancestry(reg) ==
    IF reg = None THEN <<>> ELSE <<reg>> \o Ancestry(regs[reg].parent)

\* The one of the values of __children__ that has the lowest position.
Lowest(reg) ==
    CHOOSE item \in values(reg) :
        \A other \in values(reg) : regs[item].position <= regs[other].position

\* The chain of a register and the lowest children below it.
RECURSIVE Descent(_)
Descent(reg) ==
    IF values(reg) = {} THEN <<reg>>
    ELSE <<reg>> \o Descent(Lowest(reg))

\* The first register of a chain that has the size, or RegisterNotFoundError.
First(chain, size) ==
    IF \E i \in DOMAIN chain : regs[chain[i]].size = size
    THEN return(chain[CHOOSE i \in DOMAIN chain :
                        /\ regs[chain[i]].size = size
                        /\ \A j \in 1..(i - 1) : regs[chain[j]].size # size])
    ELSE raise("RegisterNotFoundError")

\* C25 as stated: promote without a size returns the parent, promote with
\* a size returns the nearest ancestor of that size, and each raises
\* RegisterNotFoundError when there is none.
C25_PromoteNearestAncestor ==
    rcall.op = "promote" =>
        LET above == Tail(Ancestry(rcall.reg))
            expected == IF rcall.size = None
                     THEN IF above = <<>> THEN raise("RegisterNotFoundError")
                          ELSE return(above[1])
                     ELSE First(above, rcall.size)
        IN  rcall.ret = expected.ret /\ rcall.raises = expected.raises

\* C25: promote without a size returns the parent or raises
\* RegisterNotFoundError for a root; promote with a size returns the
\* register itself when it has that size, else its nearest ancestor of that
\* size, and raises RegisterNotFoundError when neither it nor an ancestor
\* has the size.
C25_PromoteSelfOrAncestor ==
    rcall.op = "promote" =>
        LET chain == Ancestry(rcall.reg)
            expected == IF rcall.size = None
                     THEN IF Tail(chain) = <<>> THEN raise("RegisterNotFoundError")
                          ELSE return(chain[2])
                     ELSE First(chain, rcall.size)
        IN  rcall.ret = expected.ret /\ rcall.raises = expected.raises

\* A promote to a size has returned the grandparent of the register.
C25_Witness ==
    /\ rcall.op = "promote"
    /\ rcall.size # None
    /\ rcall.raises = "none"
    /\ regs[rcall.reg].parent # None
    /\ regs[regs[rcall.reg].parent].parent = rcall.ret

\* C26: demote without a size returns the child at the lowest position or
\* raises RegisterNotFoundError when there is no child; demote with a size
\* returns the first register of that size on the chain that starts at the
\* register and goes on with the child at the lowest position, and raises
\* RegisterNotFoundError when the chain has none.
C26_DemoteLowestChild ==
    rcall.op = "demote" =>
        LET chain == Descent(rcall.reg)
            expected == IF rcall.size = None
                     THEN IF Tail(chain) = <<>> THEN raise("RegisterNotFoundError")
                          ELSE return(chain[2])
                     ELSE First(chain, rcall.size)
        IN  /\ rcall.ret = expected.ret /\ rcall.raises = expected.raises
            /\ rcall.size = None /\ rcall.raises = "none" =>
                  \A position \in DOMAIN regs[rcall.reg].children :
                      regs[rcall.ret].position <= position

\* A demote to a size has gone down two levels, past a register that has
\* a second child at a higher position.
C26_Witness ==
    /\ rcall.op = "demote"
    /\ rcall.size # None
    /\ rcall.raises = "none"
    /\ regs[rcall.ret].parent \notin {None, rcall.reg}
    /\ regs[regs[rcall.ret].parent].parent = rcall.reg
    /\ \E position \in DOMAIN regs[rcall.reg].children :
          regs[rcall.reg].children[position] # regs[rcall.ret].parent

\* C30: when no register has aliases, a register has a parent exactly when
\* it is a value of the __children__ of that parent, a.subsetQ(b) equals
\* b.supersetQ(a), and relatedQ gives the same in both directions.
C30_ParentsMirrorChildren ==
    (\A item \in registers : regs[item].alias = {}) =>
        \A a \in registers, b \in registers :
            /\ regs[a].parent = b <=> a \in values(b)
            /\ subsetQ(a, b) <=> supersetQ(b, a)
            /\ relatedQ(a, b) <=> relatedQ(b, a)

====
